---- MODULE Spec2Model ----
(***************************************************************************)
(* Model of the 4Mica payment client bridge                                *)
(* (modules/agent-payments/rust-client/src/main.rs).                       *)
(*                                                                         *)
(* One process invocation: read the command envelope from the input file,  *)
(* build the client configuration, construct the client, dispatch on the   *)
(* command, run one handler, write one result envelope, exit.              *)
(*                                                                         *)
(* Conventions.                                                            *)
(*  - A text (Rust String / &str) is a sequence of fragments; its value is *)
(*    the concatenation of the fragments.  Decimal strings are written one *)
(*    character per fragment (<<"0","7">>), other literals as one fragment *)
(*    (<<"Eip191">>); format!("P: {}", e) is <<"P: ">> \o e.               *)
(*  - A JSON value (serde_json::Value) is a tagged record: Null, Bool, Num,*)
(*    Str, Obj; an object is a function from keys to JSON values.          *)
(*  - A U256 is its canonical decimal digit sequence (no leading zeros),   *)
(*    so that values beyond the checker's integers are representable.      *)
(*  - Calls into the SDK and the file system are external: their outcome   *)
(*    (success value or error) is chosen nondeterministically.             *)
(***************************************************************************)
EXTENDS Integers, Sequences, FiniteSets, TLC

VARIABLES pc, argc, input, config, client, pending, ran, claims, calls,
          replies, result, file, writes, exit, fatal

vars == <<pc, argc, input, config, client, pending, ran, claims, calls,
          replies, result, file, writes, exit, fatal>>

(***************************************************************************)
(* Bounds of the model.                                                    *)
(***************************************************************************)
\* longest string generated for a large-unsigned-integer field
MaxStrLen == 2

(***************************************************************************)
(* serde_json::Value                                                       *)
(***************************************************************************)
Null == [t |-> "null"]

Bool(b) == [t |-> "bool", b |-> b]

Num(n) == [t |-> "num", n |-> n]

Str(s) == [t |-> "str", s |-> s]

Obj(o) == [t |-> "obj", o |-> o]

EmptyMap == [k \in {} |-> Null]

\* marks a key left out of a generated object; never a JSON value itself
Absent == [t |-> "absent"]

\* the object holding the fields of rec that are not Absent
Mk(rec) == Obj([k \in {x \in DOMAIN rec : rec[x] # Absent} |-> rec[k]])

\* value[key]: the member of an object, Null for a missing key or a non-object
Index(value, key) ==
    IF value.t = "obj" /\ key \in DOMAIN value.o THEN value.o[key] ELSE Null

\* value.as_str().unwrap_or(default)
as_str_unwrap_or(value, default) ==
    IF value.t = "str" THEN value.s ELSE default

\* Option<T>
None == [some |-> FALSE]

Some(x) == [some |-> TRUE, x |-> x]

\* value.as_u64(): Some for a non-negative integer number
as_u64(value) ==
    IF value.t = "num" /\ value.n >= 0 THEN Some(value.n) ELSE None

unwrap_or(opt, default) == IF opt.some THEN opt.x ELSE default

\* str::is_empty on a text
is_empty(s) == Len(s) = 0

(***************************************************************************)
(* Result<T, anyhow::Error>                                                *)
(***************************************************************************)
Ok(v) == [ok |-> TRUE, v |-> v]

Err(e) == [ok |-> FALSE, e |-> e]

(***************************************************************************)
(* U256                                                                    *)
(***************************************************************************)
Digits == {"0", "1", "2", "3", "4", "5", "6", "7", "8", "9"}

RECURSIVE StripZeros(_)
StripZeros(s) ==
    IF Len(s) > 1 /\ Head(s) = "0" THEN StripZeros(Tail(s)) ELSE s

\* Display of the parse error of U256::from_str
ParseErrorText == <<"invalid digit">>

\* U256::from_str on a decimal string: the value, or a parse error when a
\* character is not a digit
U256_from_str(s) ==
    IF Len(s) > 0 /\ \A i \in 1..Len(s) : s[i] \in Digits
    THEN Ok(StripZeros(s))
    ELSE Err(ParseErrorText)

\* U256::to_string
U256_to_string(v) == v

DigitOf(d) ==
    CASE d = 0 -> "0" [] d = 1 -> "1" [] d = 2 -> "2" [] d = 3 -> "3"
      [] d = 4 -> "4" [] d = 5 -> "5" [] d = 6 -> "6" [] d = 7 -> "7"
      [] d = 8 -> "8" [] d = 9 -> "9"

\* u64::to_string
RECURSIVE u64_to_string(_)
u64_to_string(n) ==
    IF n < 10 THEN <<DigitOf(n)>>
    ELSE u64_to_string(n \div 10) \o <<DigitOf(n % 10)>>

(***************************************************************************)
(* enum SigningScheme and its resolution from args["scheme"]               *)
(***************************************************************************)
SigningSchemes == {"Eip712", "Eip191"}

\* variant: an unrecognised scheme falls back to Eip191
sign_payment_scheme_fallback_191(args) ==
    LET scheme_str == as_str_unwrap_or(Index(args, "scheme"), <<"Eip712">>)
    IN  CASE scheme_str = <<"Eip712">> -> "Eip712"
          [] scheme_str = <<"Eip191">> -> "Eip191"
          [] OTHER -> "Eip191"

\* sign_payment: scheme_str and the match on it
sign_payment_scheme(args) ==
    LET scheme_str == as_str_unwrap_or(Index(args, "scheme"), <<"Eip712">>)
    IN  CASE scheme_str = <<"Eip712">> -> "Eip712"
          [] scheme_str = <<"Eip191">> -> "Eip191"
          [] OTHER -> "Eip712"

\* issue_payment_guarantee: scheme_str and the match on it
issue_payment_guarantee_scheme(args) ==
    LET scheme_str == as_str_unwrap_or(Index(args, "scheme"), <<"Eip712">>)
    IN  CASE scheme_str = <<"Eip712">> -> "Eip712"
          [] scheme_str = <<"Eip191">> -> "Eip191"
          [] OTHER -> "Eip712"

\* format!("{:?}", scheme)
SchemeDebug(scheme) == <<scheme>>

(***************************************************************************)
(* struct PaymentGuaranteeClaims, built from args["claims"] at three call  *)
(* sites.  The fields are evaluated in source order; the first `?` that    *)
(* meets a parse error returns it (at names the field it was raised at).   *)
(***************************************************************************)
ParseFail(e, at) == [ok |-> FALSE, e |-> e, at |-> at]

\* sign_payment: let claims = PaymentGuaranteeClaims { .. }
sign_payment_claims(args) ==
    LET claims_json == Index(args, "claims")
        tab_id == U256_from_str(
            as_str_unwrap_or(Index(claims_json, "tab_id"), <<"0">>))
        req_id == U256_from_str(
            as_str_unwrap_or(Index(claims_json, "req_id"), <<"0">>))
        amount == U256_from_str(
            as_str_unwrap_or(Index(claims_json, "amount"), <<"0">>))
    IN  IF ~tab_id.ok THEN ParseFail(tab_id.e, "tab_id")
        ELSE IF ~req_id.ok THEN ParseFail(req_id.e, "req_id")
        ELSE IF ~amount.ok THEN ParseFail(amount.e, "amount")
        ELSE Ok([user_address |->
                     as_str_unwrap_or(Index(claims_json, "user_address"), <<>>),
                 recipient_address |->
                     as_str_unwrap_or(Index(claims_json, "recipient_address"), <<>>),
                 tab_id |-> tab_id.v,
                 req_id |-> req_id.v,
                 amount |-> amount.v,
                 timestamp |->
                     unwrap_or(as_u64(Index(claims_json, "timestamp")), 0)])

\* variant: amount is read from the req_id member
issue_payment_guarantee_claims_req_as_amount(args) ==
    LET claims_json == Index(args, "claims")
        tab_id == U256_from_str(
            as_str_unwrap_or(Index(claims_json, "tab_id"), <<"0">>))
        req_id == U256_from_str(
            as_str_unwrap_or(Index(claims_json, "req_id"), <<"0">>))
        amount == U256_from_str(
            as_str_unwrap_or(Index(claims_json, "req_id"), <<"0">>))
    IN  IF ~tab_id.ok THEN ParseFail(tab_id.e, "tab_id")
        ELSE IF ~req_id.ok THEN ParseFail(req_id.e, "req_id")
        ELSE IF ~amount.ok THEN ParseFail(amount.e, "amount")
        ELSE Ok([user_address |->
                     as_str_unwrap_or(Index(claims_json, "user_address"), <<>>),
                 recipient_address |->
                     as_str_unwrap_or(Index(claims_json, "recipient_address"), <<>>),
                 tab_id |-> tab_id.v,
                 req_id |-> req_id.v,
                 amount |-> amount.v,
                 timestamp |->
                     unwrap_or(as_u64(Index(claims_json, "timestamp")), 0)])

\* issue_payment_guarantee: let claims = PaymentGuaranteeClaims { .. }
issue_payment_guarantee_claims(args) ==
    LET claims_json == Index(args, "claims")
        tab_id == U256_from_str(
            as_str_unwrap_or(Index(claims_json, "tab_id"), <<"0">>))
        req_id == U256_from_str(
            as_str_unwrap_or(Index(claims_json, "req_id"), <<"0">>))
        amount == U256_from_str(
            as_str_unwrap_or(Index(claims_json, "amount"), <<"0">>))
    IN  IF ~tab_id.ok THEN ParseFail(tab_id.e, "tab_id")
        ELSE IF ~req_id.ok THEN ParseFail(req_id.e, "req_id")
        ELSE IF ~amount.ok THEN ParseFail(amount.e, "amount")
        ELSE Ok([user_address |->
                     as_str_unwrap_or(Index(claims_json, "user_address"), <<>>),
                 recipient_address |->
                     as_str_unwrap_or(Index(claims_json, "recipient_address"), <<>>),
                 tab_id |-> tab_id.v,
                 req_id |-> req_id.v,
                 amount |-> amount.v,
                 timestamp |->
                     unwrap_or(as_u64(Index(claims_json, "timestamp")), 0)])

\* verify_bls_signature: let claims = PaymentGuaranteeClaims { .. }
verify_bls_signature_claims(args) ==
    LET claims_json == Index(args, "claims")
        tab_id == U256_from_str(
            as_str_unwrap_or(Index(claims_json, "tab_id"), <<"0">>))
        req_id == U256_from_str(
            as_str_unwrap_or(Index(claims_json, "req_id"), <<"0">>))
        amount == U256_from_str(
            as_str_unwrap_or(Index(claims_json, "amount"), <<"0">>))
    IN  IF ~tab_id.ok THEN ParseFail(tab_id.e, "tab_id")
        ELSE IF ~req_id.ok THEN ParseFail(req_id.e, "req_id")
        ELSE IF ~amount.ok THEN ParseFail(amount.e, "amount")
        ELSE Ok([user_address |->
                     as_str_unwrap_or(Index(claims_json, "user_address"), <<>>),
                 recipient_address |->
                     as_str_unwrap_or(Index(claims_json, "recipient_address"), <<>>),
                 tab_id |-> tab_id.v,
                 req_id |-> req_id.v,
                 amount |-> amount.v,
                 timestamp |->
                     unwrap_or(as_u64(Index(claims_json, "timestamp")), 0)])

\* variant: only the certificate is looked at
verification_result_certificate_only(certificate, public_key) ==
    ~is_empty(certificate)

\* verify_bls_signature: let verification_result = ..
verification_result(certificate, public_key) ==
    ~is_empty(certificate) /\ ~is_empty(public_key)

(***************************************************************************)
(* Arguments of the calls the handlers issue                               *)
(***************************************************************************)
\* deposit: let amount = U256::from_str(amount_str)?
deposit_amount(args) ==
    U256_from_str(as_str_unwrap_or(Index(args, "amount"), <<"0">>))

\* pay_tab: tab_id, req_id, amount (each with `?`) and recipient
pay_tab_args(args) ==
    LET tab_id == U256_from_str(
            as_str_unwrap_or(Index(args, "tab_id"), <<"0">>))
        req_id == U256_from_str(
            as_str_unwrap_or(Index(args, "req_id"), <<"0">>))
        amount == U256_from_str(
            as_str_unwrap_or(Index(args, "amount"), <<"0">>))
    IN  IF ~tab_id.ok THEN ParseFail(tab_id.e, "tab_id")
        ELSE IF ~req_id.ok THEN ParseFail(req_id.e, "req_id")
        ELSE IF ~amount.ok THEN ParseFail(amount.e, "amount")
        ELSE Ok([op |-> "pay_tab",
                 tab_id |-> tab_id.v,
                 req_id |-> req_id.v,
                 amount |-> amount.v,
                 recipient |-> as_str_unwrap_or(Index(args, "recipient"), <<>>)])

\* get_tab_payment_status: let tab_id = U256::from_str(..)?
get_tab_payment_status_tab_id(args) ==
    U256_from_str(as_str_unwrap_or(Index(args, "tab_id"), <<"0">>))

\* create_tab: user_address, recipient_address, ttl
create_tab_args(args) ==
    [op |-> "create_tab",
     user_address |-> as_str_unwrap_or(Index(args, "user_address"), <<>>),
     recipient_address |->
         as_str_unwrap_or(Index(args, "recipient_address"), <<>>),
     ttl |-> as_u64(Index(args, "ttl"))]

\* the literals of remunerate
RemunerateTabId == <<"1">>

RemunerateReqId == <<"1">>

RemunerateAmount ==
    <<"1", "0", "0", "0", "0", "0", "0", "0", "0", "0", "0", "0", "0", "0",
      "0", "0">>

RemunerateRecipient == <<"0x292F0E22A0245387a89d5DB50F016d18D6aF0bac">>

\* variant: remunerate settles what args names
remunerate_args_from_input(args) == pay_tab_args(args)

\* remunerate: the pay_tab call built from the literals, whatever args holds
remunerate_args(args) ==
    LET tab_id == U256_from_str(RemunerateTabId)
        req_id == U256_from_str(RemunerateReqId)
        amount == U256_from_str(RemunerateAmount)
    IN  IF ~tab_id.ok THEN ParseFail(tab_id.e, "tab_id")
        ELSE IF ~req_id.ok THEN ParseFail(req_id.e, "req_id")
        ELSE IF ~amount.ok THEN ParseFail(amount.e, "amount")
        ELSE Ok([op |-> "pay_tab",
                 tab_id |-> tab_id.v,
                 req_id |-> req_id.v,
                 amount |-> amount.v,
                 recipient |-> RemunerateRecipient])

(***************************************************************************)
(* struct Output and its serialization                                     *)
(***************************************************************************)
\* variant: the failure envelope loses its message
ErrOutputNoError(message) ==
    [success |-> FALSE, error |-> None, data |-> Null]

\* Output { success: false, error: Some(message), data: Value::Null }
ErrOutput(message) ==
    [success |-> FALSE, error |-> Some(message), data |-> Null]

\* Output { success: true, error: None, data }
OkOutput(data) == [success |-> TRUE, error |-> None, data |-> data]

\* #[serde(flatten)] data: the members of an object join the enclosing map,
\* Null contributes none
Flatten(data) == IF data.t = "obj" THEN data.o ELSE EmptyMap

\* serde_json::to_string_pretty(&output): the JSON object written to the file
Serialize(output) ==
    Obj([success |-> Bool(output.success),
         error |-> IF output.error.some THEN Str(output.error.x) ELSE Null]
        @@ Flatten(output.data))

(***************************************************************************)
(* fn main: config fallbacks and command dispatch                          *)
(***************************************************************************)
DefaultRpcUrl == <<"https://api.4mica.xyz">>

DefaultWalletPrivateKey ==
    <<"0xac0974bec39a17e36ba4a6b4d238ff944bacb478cbed5efcae784d7bf4f2ff80">>

DefaultEthereumHttpRpcUrl == <<"https://ethereum-holesky.publicnode.com">>

DefaultContractAddress == <<"0x698B98d6574dE06dD39A49Cc4e37f3B06d454Eb9">>

\* the values handed to ConfigBuilder
ConfigValues(cfg) ==
    [rpc_url |-> as_str_unwrap_or(Index(cfg, "rpc_url"), DefaultRpcUrl),
     wallet_private_key |->
         as_str_unwrap_or(Index(cfg, "wallet_private_key"),
                          DefaultWalletPrivateKey),
     ethereum_http_rpc_url |->
         as_str_unwrap_or(Index(cfg, "ethereum_http_rpc_url"),
                          DefaultEthereumHttpRpcUrl),
     contract_address |->
         as_str_unwrap_or(Index(cfg, "contract_address"),
                          DefaultContractAddress)]

CommandNames ==
    {"test_connection", "deposit", "get_user", "create_tab", "sign_payment",
     "issue_payment_guarantee", "pay_tab", "get_tab_payment_status",
     "remunerate", "verify_bls_signature"}

\* variant: the command is matched without regard to case
DispatchIgnoreCase(command) ==
    CASE command = "Deposit" -> "deposit"
      [] command \in CommandNames -> command
      [] OTHER -> "unknown"

\* match input.command.as_str(): the handler an arm calls, "unknown" for `_`
Dispatch(command) ==
    CASE command = "test_connection" -> "test_connection"
      [] command = "deposit" -> "deposit"
      [] command = "get_user" -> "get_user"
      [] command = "create_tab" -> "create_tab"
      [] command = "sign_payment" -> "sign_payment"
      [] command = "issue_payment_guarantee" -> "issue_payment_guarantee"
      [] command = "pay_tab" -> "pay_tab"
      [] command = "get_tab_payment_status" -> "get_tab_payment_status"
      [] command = "remunerate" -> "remunerate"
      [] command = "verify_bls_signature" -> "verify_bls_signature"
      [] OTHER -> "unknown"

(***************************************************************************)
(* What the SDK and the file system can answer                             *)
(***************************************************************************)
\* Display of an SDK error
Causes == {<<"timeout">>, <<"rejected">>}

\* transaction receipts of deposit and pay_tab
Receipts ==
    {[transaction_hash |-> <<"0xaa">>, block_number |-> 12, gas_used |-> 21000],
     [transaction_hash |-> <<"0xbb">>, block_number |-> 13, gas_used |-> 30500]}

UserInfos ==
    {[collateral |-> <<"1", "0", "0">>,
      withdrawal_request_amount |-> <<"0">>,
      withdrawal_request_timestamp |-> 0]}

TabIds == {<<"4", "2">>}

Signatures == {<<"0xsig">>}

BlsCerts == {"cert1"}

\* format!("{:?}", bls_cert)
CertDebug(bls_cert) == <<"BLSCert(", bls_cert, ")">>

TabStatuses == {[paid |-> <<"5">>, remunerated |-> <<"0">>]}

\* Result<T, E> of an SDK call whose success values are oks
Responses(oks) == {Ok(v) : v \in oks} \cup {Err(c) : c \in Causes}

(***************************************************************************)
(* Input files                                                             *)
(***************************************************************************)
Chars == {"0", "7", "x"}

RECURSIVE StringsOfLen(_)
StringsOfLen(n) ==
    IF n = 0 THEN {<<>>}
    ELSE {Append(s, c) : s \in StringsOfLen(n - 1), c \in Chars}

\* strings a large-unsigned-integer field is given: decimal, zero-padded,
\* and malformed ones
IntStrings == UNION {StringsOfLen(n) : n \in 1..MaxStrLen}

\* every shape of a large-unsigned-integer field: missing, of the wrong JSON
\* type, a string
FieldVals == {Absent, Null, Num(7)} \cup {Str(s) : s \in IntStrings}

SmallVals == {Absent, Str(<<"7">>), Str(<<"x">>)}

AddrVals == {Absent, Str(<<"0xUser">>), Num(1)}

TtlVals == {Absent, Num(0), Num(60), Str(<<"6", "0">>)}

TimestampVals == {Absent, Num(5), Num(-1), Str(<<"5">>)}

SchemeVals ==
    {Absent, Str(<<"Eip712">>), Str(<<"Eip191">>), Str(<<"bogus">>),
     Str(<<"eip191">>), Num(191)}

TextVals == {Absent, Str(<<>>), Str(<<"0xdata">>)}

DepositArgs == {Mk([amount |-> v]) : v \in FieldVals}

CreateTabArgs ==
    {Mk([user_address |-> u, recipient_address |-> r, ttl |-> t]) :
        u \in AddrVals, r \in {Absent, Str(<<"0xRecipient">>)}, t \in TtlVals}

PayTabArgs ==
    {Mk([tab_id |-> a, req_id |-> b, amount |-> c,
         recipient |-> Str(<<"0xRecipient">>)]) :
        a \in FieldVals, b \in SmallVals, c \in SmallVals}
    \cup {Mk([tab_id |-> Str(<<"7">>), req_id |-> Str(<<"7">>),
              amount |-> Str(<<"7">>), recipient |-> r]) :
        r \in {Absent, Num(1)}}

GoodClaims ==
    Mk([user_address |-> Str(<<"0xUser">>),
        recipient_address |-> Str(<<"0xRecipient">>),
        tab_id |-> Str(<<"7">>), req_id |-> Str(<<"0", "7">>),
        amount |-> Str(<<"7", "0">>), timestamp |-> Num(5)])

BadClaims ==
    Mk([user_address |-> Str(<<"0xUser">>),
        recipient_address |-> Str(<<"0xRecipient">>),
        tab_id |-> Str(<<"7">>), req_id |-> Str(<<"x">>),
        amount |-> Str(<<"7">>), timestamp |-> Num(5)])

\* args["claims"]: integer fields of every shape, addresses and timestamps of
\* every shape, and claims that are no object
ClaimsVals ==
    {Mk([user_address |-> Str(<<"0xUser">>),
         recipient_address |-> Str(<<"0xRecipient">>),
         tab_id |-> a, req_id |-> b, amount |-> c, timestamp |-> Num(5)]) :
        a \in FieldVals, b \in SmallVals, c \in SmallVals}
    \cup {Mk([user_address |-> Str(<<"0xUser">>),
              recipient_address |-> Str(<<"0xRecipient">>),
              tab_id |-> Str(<<"7">>), req_id |-> b, amount |-> c,
              timestamp |-> Absent]) :
        b \in FieldVals, c \in FieldVals}
    \cup {Mk([user_address |-> u, recipient_address |-> r,
              tab_id |-> Str(<<"7">>), req_id |-> Absent,
              amount |-> Str(<<"7", "0">>), timestamp |-> t]) :
        u \in AddrVals, r \in AddrVals, t \in TimestampVals}
    \cup {Absent, Null, Str(<<"7">>), GoodClaims, BadClaims}

ClaimsArgs ==
    {Mk([claims |-> c, scheme |-> Absent, signature |-> Str(<<"0xsig">>),
         certificate |-> Str(<<"0xcert">>), public_key |-> Str(<<"0xkey">>)]) :
        c \in ClaimsVals}
    \cup {Mk([claims |-> c, scheme |-> s, signature |-> Str(<<"0xsig">>),
              certificate |-> x, public_key |-> y]) :
        c \in {GoodClaims, BadClaims}, s \in SchemeVals,
        x \in TextVals, y \in TextVals}
    \cup {Mk([claims |-> GoodClaims, scheme |-> Str(<<"Eip191">>),
              signature |-> g, certificate |-> Num(1),
              public_key |-> Str(<<"0xkey">>)]) :
        g \in {Absent, Num(1)}}

\* args every command is run with
CoreArgs ==
    {Null, Obj(EmptyMap), Str(<<"7">>),
     Mk([amount |-> Str(<<"7">>), tab_id |-> Str(<<"0", "7">>),
         req_id |-> Str(<<"7">>), recipient |-> Str(<<"0xRecipient">>),
         certificate |-> Str(<<"0xcert">>), claims |-> GoodClaims]),
     Mk([amount |-> Str(<<"x">>), tab_id |-> Str(<<"x">>),
         claims |-> BadClaims])}

ArgsFor(command) ==
    CoreArgs \cup
    CASE command = "deposit" -> DepositArgs
      [] command = "create_tab" -> CreateTabArgs
      [] command = "pay_tab" -> PayTabArgs
      [] command = "get_tab_payment_status" ->
            {Mk([tab_id |-> v]) : v \in FieldVals}
      [] command \in {"sign_payment", "issue_payment_guarantee",
                      "verify_bls_signature"} -> ClaimsArgs
      [] command = "remunerate" -> PayTabArgs \cup DepositArgs
      [] OTHER -> {}

\* command strings: the ten names and near misses of them
Commands == CommandNames \cup {"", "Deposit", "deposit ", "withdraw"}

ConfigVals ==
    {Obj(EmptyMap), Mk([rpc_url |-> Str(<<"http://localhost:3000">>),
                        wallet_private_key |-> Num(1)])}

\* struct Input, as decoded from a well-formed input file
Envelopes ==
    UNION {{[command |-> c, args |-> a, config |-> g] :
                a \in ArgsFor(c), g \in ConfigVals} : c \in Commands}

\* an input file that is not a JSON document of the shape of Input
Malformed == [malformed |-> TRUE]

(***************************************************************************)
(* State                                                                   *)
(*   pc       position in main: "start", "read", "decode", "config",       *)
(*            "connect", "connecting", "dispatch", "await", "result",      *)
(*            "exited" ("claims" in SpecClaims)                            *)
(*   argc     env::args().len()                                            *)
(*   input    the decoded Input                                            *)
(*   config   the values handed to ConfigBuilder                           *)
(*   client   "none", "ok" or "failed": outcome of Client::new             *)
(*   pending  the SDK call awaited, "none" when there is none              *)
(*   ran      the handlers dispatch called, in order                       *)
(*   claims   the PaymentGuaranteeClaims each call site built              *)
(*   calls    the SDK command calls issued, in order                       *)
(*   replies  the outcomes of the SDK command calls, in order              *)
(*   result   what the handler returned                                    *)
(*   file     content of the output file                                   *)
(*   writes   number of fs::write calls that wrote the output file         *)
(*   exit     "none" while running, "success" (0) or "failure" (non-zero)  *)
(*   fatal    what made main exit with a failure                           *)
(***************************************************************************)
NoInput == [none |-> TRUE]

NoResult == [none |-> TRUE]

NoFile == [t |-> "nofile"]

NotBuilt == [built |-> FALSE]

ClaimSites == {"sign_payment", "issue_payment_guarantee", "verify_bls_signature"}

ArgCounts == {2, 3, 4}

Init ==
    /\ pc = "start"
    /\ argc \in ArgCounts
    /\ input = NoInput
    /\ config = NoInput
    /\ client = "none"
    /\ pending = "none"
    /\ ran = <<>>
    /\ claims = [h \in ClaimSites |-> NotBuilt]
    /\ calls = <<>>
    /\ replies = <<>>
    /\ result = NoResult
    /\ file = NoFile
    /\ writes = 0
    /\ exit = "none"
    /\ fatal = "none"

\* main returns Err (a `?` fired) or calls std::process::exit(1)
Fail(why) ==
    /\ pc' = "exited"
    /\ exit' = "failure"
    /\ fatal' = why

\* fs::write(output_file, to_string_pretty(&output)?)? and the return that
\* follows it
WriteAndReturn(output) ==
    \E written \in BOOLEAN :
        IF written
        THEN /\ file' = Serialize(output)
             /\ writes' = writes + 1
             /\ pc' = "exited"
             /\ exit' = "success"
             /\ fatal' = "none"
        ELSE /\ Fail("write")
             /\ UNCHANGED <<file, writes>>

\* if args.len() != 3 { eprintln!(..); exit(1) }
CheckArgs ==
    /\ pc = "start"
    /\ IF argc # 3
       THEN Fail("usage")
       ELSE pc' = "read" /\ UNCHANGED <<exit, fatal>>
    /\ UNCHANGED <<argc, input, config, client, pending, ran, claims,
                   calls, replies, result, file, writes>>

\* fs::read_to_string(input_file)?
ReadInput ==
    /\ pc = "read"
    /\ \E readable \in BOOLEAN :
        IF readable
        THEN pc' = "decode" /\ UNCHANGED <<exit, fatal>>
        ELSE Fail("read")
    /\ UNCHANGED <<argc, input, config, client, pending, ran, claims,
                   calls, replies, result, file, writes>>

\* serde_json::from_str(&input_content)?
DecodeInput ==
    /\ pc = "decode"
    /\ \E content \in Envelopes \cup {Malformed} :
        IF content = Malformed
        THEN Fail("decode") /\ UNCHANGED input
        ELSE pc' = "config" /\ input' = content /\ UNCHANGED <<exit, fatal>>
    /\ UNCHANGED <<argc, config, client, pending, ran, claims, calls,
                   replies, result, file, writes>>

\* ConfigBuilder::default()...build().map_err(..)?
BuildConfig ==
    /\ pc = "config"
    /\ config' = ConfigValues(input.config)
    /\ \E built \in BOOLEAN :
        IF built
        THEN pc' = "connect" /\ UNCHANGED <<exit, fatal>>
        ELSE Fail("config")
    /\ UNCHANGED <<argc, input, client, pending, ran, claims, calls,
                   replies, result, file, writes>>

\* Client::new(config) is called
ClientNew ==
    /\ pc = "connect"
    /\ pending' = "Client::new"
    /\ pc' = "connecting"
    /\ UNCHANGED <<argc, input, config, client, ran, claims, calls,
                   replies, result, file, writes, exit, fatal>>

\* Client::new(config).await is Ok(client)
ClientNewOk ==
    /\ pc = "connecting"
    /\ pending' = "none"
    /\ client' = "ok"
    /\ pc' = "dispatch"
    /\ UNCHANGED <<argc, input, config, ran, claims, calls, replies, result,
                   file, writes, exit, fatal>>

\* Client::new(config).await is Err(e): the failure envelope is written and
\* main returns Ok(())
ClientNewErr ==
    /\ pc = "connecting"
    /\ pending' = "none"
    /\ client' = "failed"
    /\ \E e \in Causes :
        WriteAndReturn(ErrOutput(<<"Failed to create client: ">> \o e))
    /\ UNCHANGED <<argc, input, config, ran, claims, calls, replies, result>>

\* the `_` arm of the match on input.command
UnknownCommand ==
    /\ pc = "dispatch"
    /\ Dispatch(input.command) = "unknown"
    /\ WriteAndReturn(ErrOutput(<<"Unknown command: ", input.command>>))
    /\ UNCHANGED <<argc, input, config, client, pending, ran, claims,
                   calls, replies, result>>

(***************************************************************************)
(* The handlers.  A handler that calls the SDK is two steps: the call is   *)
(* issued (or an argument fails to parse and the handler returns), and the *)
(* awaited call returns and the handler maps its outcome.                  *)
(***************************************************************************)
\* dispatch calls handler h
Enter(h) == ran' = Append(ran, h)

\* the handler running, "none" before dispatch
Running == IF ran = <<>> THEN "none" ELSE ran[Len(ran)]

\* the handler issues the SDK call `call` and awaits it
Issue(call) ==
    /\ calls' = Append(calls, call)
    /\ pending' = call.op
    /\ pc' = "await"
    /\ UNCHANGED <<replies, result>>

\* the handler returns r without SDK call
Return(r) ==
    /\ result' = r
    /\ pc' = "result"
    /\ UNCHANGED <<calls, replies, pending>>

\* the awaited SDK call answers r and the handler returns res
Reply(r, res) ==
    /\ replies' = Append(replies, r)
    /\ pending' = "none"
    /\ result' = res
    /\ pc' = "result"
    /\ UNCHANGED <<calls, ran>>

\* json!({transaction_hash, block_number, gas_used}) of deposit and pay_tab
ReceiptJson(receipt) ==
    Obj([transaction_hash |-> Str(receipt.transaction_hash),
         block_number |-> Num(receipt.block_number),
         gas_used |-> Num(receipt.gas_used)])

\* test_connection
test_connection_result == Ok(Obj([status |-> Str(<<"connected">>)]))

TestConnection ==
    /\ pc = "dispatch"
    /\ Dispatch(input.command) = "test_connection"
    /\ Enter("test_connection")
    /\ Return(test_connection_result)
    /\ UNCHANGED <<argc, input, config, client, claims, file, writes, exit,
                   fatal>>

\* deposit: match client.user.deposit(amount).await
deposit_result(r) ==
    IF r.ok THEN Ok(ReceiptJson(r.v))
    ELSE Err(<<"Deposit failed: ">> \o r.e)

Deposit ==
    /\ pc = "dispatch"
    /\ Dispatch(input.command) = "deposit"
    /\ Enter("deposit")
    /\ LET amount == deposit_amount(input.args)
       IN  IF amount.ok
           THEN Issue([op |-> "deposit", amount |-> amount.v])
           ELSE Return(Err(amount.e))
    /\ UNCHANGED <<argc, input, config, client, claims, file, writes, exit,
                   fatal>>

\* variant: a failed deposit is submitted again
DepositDoneRetry ==
    /\ pc = "await"
    /\ Running = "deposit"
    /\ \E r \in Responses(Receipts) :
        IF r.ok
        THEN Reply(r, deposit_result(r))
        ELSE /\ calls' = Append(calls, calls[Len(calls)])
             /\ replies' = Append(replies, r)
             /\ UNCHANGED <<pc, pending, result, ran>>
    /\ UNCHANGED <<argc, input, config, client, claims, file, writes, exit,
                   fatal>>

DepositDone ==
    /\ pc = "await"
    /\ Running = "deposit"
    /\ \E r \in Responses(Receipts) : Reply(r, deposit_result(r))
    /\ UNCHANGED <<argc, input, config, client, claims, file, writes, exit,
                   fatal>>

\* get_user: match client.user.get_user().await
get_user_result(r) ==
    IF r.ok
    THEN Ok(Obj([collateral |-> Str(U256_to_string(r.v.collateral)),
                 withdrawal_request_amount |->
                     Str(U256_to_string(r.v.withdrawal_request_amount)),
                 withdrawal_request_timestamp |->
                     Num(r.v.withdrawal_request_timestamp)]))
    ELSE Err(<<"Get user failed: ">> \o r.e)

GetUser ==
    /\ pc = "dispatch"
    /\ Dispatch(input.command) = "get_user"
    /\ Enter("get_user")
    /\ Issue([op |-> "get_user"])
    /\ UNCHANGED <<argc, input, config, client, claims, file, writes, exit,
                   fatal>>

GetUserDone ==
    /\ pc = "await"
    /\ Running = "get_user"
    /\ \E r \in Responses(UserInfos) : Reply(r, get_user_result(r))
    /\ UNCHANGED <<argc, input, config, client, claims, file, writes, exit,
                   fatal>>

\* create_tab: match client.recipient.create_tab(..).await
create_tab_result(r) ==
    IF r.ok THEN Ok(Obj([tab_id |-> Str(U256_to_string(r.v))]))
    ELSE Err(<<"Create tab failed: ">> \o r.e)

CreateTab ==
    /\ pc = "dispatch"
    /\ Dispatch(input.command) = "create_tab"
    /\ Enter("create_tab")
    /\ Issue(create_tab_args(input.args))
    /\ UNCHANGED <<argc, input, config, client, claims, file, writes, exit,
                   fatal>>

CreateTabDone ==
    /\ pc = "await"
    /\ Running = "create_tab"
    /\ \E r \in Responses(TabIds) : Reply(r, create_tab_result(r))
    /\ UNCHANGED <<argc, input, config, client, claims, file, writes, exit,
                   fatal>>

\* sign_payment: match client.user.sign_payment(claims, scheme).await
sign_payment_result(r) ==
    IF r.ok
    THEN Ok(Obj([signature |-> Str(r.v.signature),
                 scheme |-> Str(SchemeDebug(r.v.scheme))]))
    ELSE Err(<<"Sign payment failed: ">> \o r.e)

SignPayment ==
    /\ pc = "dispatch"
    /\ Dispatch(input.command) = "sign_payment"
    /\ Enter("sign_payment")
    /\ LET built == sign_payment_claims(input.args)
       IN  /\ claims' = [claims EXCEPT !["sign_payment"] = built]
           /\ IF built.ok
              THEN Issue([op |-> "sign_payment", claims |-> built.v,
                          scheme |-> sign_payment_scheme(input.args)])
              ELSE Return(Err(built.e))
    /\ UNCHANGED <<argc, input, config, client, file, writes, exit, fatal>>

SignPaymentDone ==
    /\ pc = "await"
    /\ Running = "sign_payment"
    /\ \E r \in Responses({[signature |-> g, scheme |-> m] :
                              g \in Signatures, m \in SigningSchemes}) :
        Reply(r, sign_payment_result(r))
    /\ UNCHANGED <<argc, input, config, client, claims, file, writes, exit,
                   fatal>>

\* issue_payment_guarantee: match client.recipient.issue_payment_guarantee(..)
issue_payment_guarantee_result(r) ==
    IF r.ok
    THEN Ok(Obj([certificate |-> Str(CertDebug(r.v)),
                 signature |-> Str(<<"bls_signature">>),
                 public_key |-> Str(<<"bls_public_key">>)]))
    ELSE Err(<<"Issue payment guarantee failed: ">> \o r.e)

IssuePaymentGuarantee ==
    /\ pc = "dispatch"
    /\ Dispatch(input.command) = "issue_payment_guarantee"
    /\ Enter("issue_payment_guarantee")
    /\ LET built == issue_payment_guarantee_claims(input.args)
       IN  /\ claims' = [claims EXCEPT !["issue_payment_guarantee"] = built]
           /\ IF built.ok
              THEN Issue([op |-> "issue_payment_guarantee",
                          claims |-> built.v,
                          signature |->
                              as_str_unwrap_or(
                                  Index(input.args, "signature"), <<>>),
                          scheme |->
                              issue_payment_guarantee_scheme(input.args)])
              ELSE Return(Err(built.e))
    /\ UNCHANGED <<argc, input, config, client, file, writes, exit, fatal>>

IssuePaymentGuaranteeDone ==
    /\ pc = "await"
    /\ Running = "issue_payment_guarantee"
    /\ \E r \in Responses(BlsCerts) :
        Reply(r, issue_payment_guarantee_result(r))
    /\ UNCHANGED <<argc, input, config, client, claims, file, writes, exit,
                   fatal>>

\* variant: the error of pay_tab is passed on without context
pay_tab_result_bare(r) ==
    IF r.ok THEN Ok(ReceiptJson(r.v)) ELSE Err(r.e)

\* pay_tab: match client.user.pay_tab(..).await
pay_tab_result(r) ==
    IF r.ok THEN Ok(ReceiptJson(r.v))
    ELSE Err(<<"Pay tab failed: ">> \o r.e)

PayTab ==
    /\ pc = "dispatch"
    /\ Dispatch(input.command) = "pay_tab"
    /\ Enter("pay_tab")
    /\ LET call == pay_tab_args(input.args)
       IN  IF call.ok
           THEN Issue(call.v)
           ELSE Return(Err(call.e))
    /\ UNCHANGED <<argc, input, config, client, claims, file, writes, exit,
                   fatal>>

PayTabDone ==
    /\ pc = "await"
    /\ Running = "pay_tab"
    /\ \E r \in Responses(Receipts) : Reply(r, pay_tab_result(r))
    /\ UNCHANGED <<argc, input, config, client, claims, file, writes, exit,
                   fatal>>

\* get_tab_payment_status: match client.recipient.get_tab_payment_status(..)
get_tab_payment_status_result(r) ==
    IF r.ok
    THEN Ok(Obj([paid |-> Str(U256_to_string(r.v.paid)),
                 remunerated |-> Str(U256_to_string(r.v.remunerated))]))
    ELSE Err(<<"Get tab payment status failed: ">> \o r.e)

GetTabPaymentStatus ==
    /\ pc = "dispatch"
    /\ Dispatch(input.command) = "get_tab_payment_status"
    /\ Enter("get_tab_payment_status")
    /\ LET tab_id == get_tab_payment_status_tab_id(input.args)
       IN  IF tab_id.ok
           THEN Issue([op |-> "get_tab_payment_status", tab_id |-> tab_id.v])
           ELSE Return(Err(tab_id.e))
    /\ UNCHANGED <<argc, input, config, client, claims, file, writes, exit,
                   fatal>>

GetTabPaymentStatusDone ==
    /\ pc = "await"
    /\ Running = "get_tab_payment_status"
    /\ \E r \in Responses(TabStatuses) :
        Reply(r, get_tab_payment_status_result(r))
    /\ UNCHANGED <<argc, input, config, client, claims, file, writes, exit,
                   fatal>>

\* remunerate: match client.user.pay_tab(..).await
remunerate_result(r) ==
    IF r.ok
    THEN Ok(Obj([transaction_hash |-> Str(r.v.transaction_hash),
                 block_number |-> Num(r.v.block_number),
                 gas_used |-> Str(u64_to_string(r.v.gas_used))]))
    ELSE Err(<<"Pay tab failed: ">> \o r.e)

Remunerate ==
    /\ pc = "dispatch"
    /\ Dispatch(input.command) = "remunerate"
    /\ Enter("remunerate")
    /\ LET call == remunerate_args(input.args)
       IN  IF call.ok
           THEN Issue(call.v)
           ELSE Return(Err(call.e))
    /\ UNCHANGED <<argc, input, config, client, claims, file, writes, exit,
                   fatal>>

RemunerateDone ==
    /\ pc = "await"
    /\ Running = "remunerate"
    /\ \E r \in Responses(Receipts) :
        Reply(r, remunerate_result(r))
    /\ UNCHANGED <<argc, input, config, client, claims, file, writes, exit,
                   fatal>>

\* verify_bls_signature: the claims are parsed (with `?`) before the check
verify_bls_signature_result(args, built) ==
    LET certificate == as_str_unwrap_or(Index(args, "certificate"), <<>>)
        public_key == as_str_unwrap_or(Index(args, "public_key"), <<>>)
    IN  IF ~built.ok THEN Err(built.e)
        ELSE IF verification_result(certificate, public_key)
        THEN Ok(Obj([verified |-> Bool(TRUE),
                     message |-> Str(<<"BLS signature is valid">>),
                     claims |->
                         Obj([user_address |-> Str(built.v.user_address),
                              recipient_address |->
                                  Str(built.v.recipient_address),
                              tab_id |-> Str(U256_to_string(built.v.tab_id)),
                              req_id |-> Str(U256_to_string(built.v.req_id)),
                              amount |-> Str(U256_to_string(built.v.amount)),
                              timestamp |-> Num(built.v.timestamp)])]))
        ELSE Err(<<"BLS signature verification failed">>)

VerifyBlsSignature ==
    /\ pc = "dispatch"
    /\ Dispatch(input.command) = "verify_bls_signature"
    /\ Enter("verify_bls_signature")
    /\ LET built == verify_bls_signature_claims(input.args)
       IN  /\ claims' = [claims EXCEPT !["verify_bls_signature"] = built]
           /\ Return(verify_bls_signature_result(input.args, built))
    /\ UNCHANGED <<argc, input, config, client, file, writes, exit, fatal>>

\* match result { Ok(data) => .. }: the success envelope is written
WriteSuccess ==
    /\ pc = "result"
    /\ result.ok
    /\ WriteAndReturn(OkOutput(result.v))
    /\ UNCHANGED <<argc, input, config, client, pending, ran, claims,
                   calls, replies, result>>

\* match result { Err(e) => .. }: the failure envelope is written
WriteFailure ==
    /\ pc = "result"
    /\ ~result.ok
    /\ WriteAndReturn(ErrOutput(result.e))
    /\ UNCHANGED <<argc, input, config, client, pending, ran, claims,
                   calls, replies, result>>

Next ==
    \/ CheckArgs
    \/ ReadInput
    \/ DecodeInput
    \/ BuildConfig
    \/ ClientNew
    \/ ClientNewOk
    \/ ClientNewErr
    \/ UnknownCommand
    \/ TestConnection
    \/ Deposit
    \/ DepositDone
    \/ GetUser
    \/ GetUserDone
    \/ CreateTab
    \/ CreateTabDone
    \/ SignPayment
    \/ SignPaymentDone
    \/ IssuePaymentGuarantee
    \/ IssuePaymentGuaranteeDone
    \/ PayTab
    \/ PayTabDone
    \/ GetTabPaymentStatus
    \/ GetTabPaymentStatusDone
    \/ Remunerate
    \/ RemunerateDone
    \/ VerifyBlsSignature
    \/ WriteSuccess
    \/ WriteFailure

Spec == Init /\ [][Next]_vars

(***************************************************************************)
(* SpecClaims: the three call sites that build PaymentGuaranteeClaims,     *)
(* each applied to the same args.                                          *)
(***************************************************************************)
InitClaims ==
    /\ pc = "claims"
    /\ argc = 3
    /\ input \in {[command |-> "", args |-> a, config |-> Null] :
                     a \in ClaimsArgs \cup CoreArgs}
    /\ config = NoInput
    /\ client = "none"
    /\ pending = "none"
    /\ ran = <<>>
    /\ claims = [h \in ClaimSites |-> NotBuilt]
    /\ calls = <<>>
    /\ replies = <<>>
    /\ result = NoResult
    /\ file = NoFile
    /\ writes = 0
    /\ exit = "none"
    /\ fatal = "none"

BuildSignPaymentClaims ==
    /\ pc = "claims"
    /\ claims["sign_payment"] = NotBuilt
    /\ claims' = [claims EXCEPT
                    !["sign_payment"] = sign_payment_claims(input.args)]
    /\ UNCHANGED <<pc, argc, input, config, client, pending, ran, calls,
                   replies, result, file, writes, exit, fatal>>

BuildIssuePaymentGuaranteeClaims ==
    /\ pc = "claims"
    /\ claims["issue_payment_guarantee"] = NotBuilt
    /\ claims' = [claims EXCEPT
                    !["issue_payment_guarantee"] =
                        issue_payment_guarantee_claims(input.args)]
    /\ UNCHANGED <<pc, argc, input, config, client, pending, ran, calls,
                   replies, result, file, writes, exit, fatal>>

BuildVerifyBlsSignatureClaims ==
    /\ pc = "claims"
    /\ claims["verify_bls_signature"] = NotBuilt
    /\ claims' = [claims EXCEPT
                    !["verify_bls_signature"] =
                        verify_bls_signature_claims(input.args)]
    /\ UNCHANGED <<pc, argc, input, config, client, pending, ran, calls,
                   replies, result, file, writes, exit, fatal>>

NextClaims ==
    \/ BuildSignPaymentClaims
    \/ BuildIssuePaymentGuaranteeClaims
    \/ BuildVerifyBlsSignatureClaims

SpecClaims == InitClaims /\ [][NextClaims]_vars

(***************************************************************************)
(* Vocabulary of the properties                                            *)
(***************************************************************************)
\* main has exited and the output file holds an envelope
Written == pc = "exited" /\ file # NoFile

\* the failure envelope carrying message
FailureEnvelope(message) ==
    Obj([success |-> Bool(FALSE), error |-> Str(message)])

\* key is a member of the JSON object value
Has(value, key) == value.t = "obj" /\ key \in DOMAIN value.o

\* s is the string representation of an unsigned integer
IsDecimal(s) == Len(s) > 0 /\ \A i \in 1..Len(s) : s[i] \in Digits

\* the field is present and is not the string representation of an
\* unsigned integer
PresentMalformed(value, key) ==
    /\ Has(value, key)
    /\ ~(value.o[key].t = "str" /\ IsDecimal(value.o[key].s))

\* the field is present, a string, and not a decimal one
MalformedString(value, key) ==
    /\ Has(value, key)
    /\ value.o[key].t = "str"
    /\ ~IsDecimal(value.o[key].s)

\* the JSON value holding the large-unsigned-integer fields of a command
IntHolder(command) ==
    IF command \in ClaimSites THEN Index(input.args, "claims") ELSE input.args

\* the large-unsigned-integer fields a command reads
IntFields(command) ==
    CASE command = "deposit" -> {"amount"}
      [] command = "get_tab_payment_status" -> {"tab_id"}
      [] command \in ClaimSites \cup {"pay_tab"} -> {"tab_id", "req_id", "amount"}
      [] OTHER -> {}

(***************************************************************************)
(* Properties                                                              *)
(***************************************************************************)

\* C1: an invocation whose input file was read and decoded writes exactly
\* one result envelope and exits 0, whatever the command, args, config,
\* client construction and remote call do; the only invocations that end
\* with a non-zero exit and no envelope are those where reading the input,
\* decoding the envelope or writing the output failed.
C1_OnlyIoFailuresEscape ==
    pc = "exited" /\ argc = 3 =>
        IF fatal \in {"read", "decode", "write"}
        THEN exit = "failure" /\ writes = 0
        ELSE exit = "success" /\ writes = 1 /\ file.t = "obj"

\* C2: in every envelope written, error is a string iff success is false;
\* a failure envelope has no data fields; a success envelope has error null
\* and exactly the fields of the handler's payload merged at top level.
C2_EnvelopeShape ==
    file # NoFile =>
        LET o == file.o
        IN  /\ file.t = "obj"
            /\ {"success", "error"} \subseteq DOMAIN o
            /\ o["success"].t = "bool"
            /\ o["error"].t \in {"str", "null"}
            /\ (o["error"].t = "str" <=> o["success"] = Bool(FALSE))
            /\ (o["success"] = Bool(FALSE) =>
                    DOMAIN o = {"success", "error"})
            /\ (o["success"] = Bool(TRUE) =>
                    /\ o["error"] = Null
                    /\ result # NoResult
                    /\ result.ok
                    /\ result.v.t = "obj"
                    /\ DOMAIN o = {"success", "error"} \cup DOMAIN result.v.o
                    /\ \A k \in DOMAIN result.v.o : o[k] = result.v.o[k])

\* C2 witness: a success envelope with a receipt merged at top level
C2_Witness ==
    /\ Written
    /\ file.o["success"] = Bool(TRUE)
    /\ "transaction_hash" \in DOMAIN file.o

\* C3: once the client is constructed, dispatch is by exact match: each of
\* the ten names runs exactly one handler, its own; any other command runs
\* no handler, issues no remote call and ends with the failure envelope
\* "Unknown command: <name>".
C3_ExactDispatch ==
    /\ ran # <<>> =>
          input.command \in CommandNames /\ ran = <<input.command>>
    /\ client = "ok" /\ pc \in {"await", "result", "exited"}
          /\ input.command \in CommandNames =>
          ran = <<input.command>>
    /\ client = "ok" /\ input.command \notin CommandNames =>
          /\ ran = <<>>
          /\ calls = <<>>
          /\ pc \in {"dispatch", "exited"}
          /\ pc = "exited" /\ fatal = "none" =>
                /\ exit = "success"
                /\ file = FailureEnvelope(
                              <<"Unknown command: ", input.command>>)

\* C3 witness: a near miss of a command name ended as an unknown command
C3_Witness ==
    /\ Written
    /\ input.command = "Deposit"
    /\ client = "ok"
    /\ file = FailureEnvelope(<<"Unknown command: ", "Deposit">>)

\* C4: the remote interactions of an invocation are sequential: no command
\* call before the client is constructed, at most one command call (exactly
\* one for the eight calling handlers when their arguments parse, none for
\* test_connection and verify_bls_signature), no call repeated after a
\* failure, the envelope written only when no call is awaited; if client
\* construction fails no handler runs and the envelope
\* "Failed to create client: <cause>" is written with exit 0.
C4_Sequential ==
    /\ Len(calls) <= 1
    /\ Len(replies) <= Len(calls)
    /\ calls # <<>> => client = "ok"
    /\ ran # <<>> => client = "ok"
    /\ pending = "Client::new" =>
          client = "none" /\ calls = <<>> /\ ran = <<>>
    /\ ran # <<>> /\ pc \in {"result", "exited"} =>
          Len(calls) =
              IF Running \in {"test_connection", "verify_bls_signature"}
              THEN 0
              ELSE IF \E k \in IntFields(Running) :
                          MalformedString(IntHolder(Running), k)
              THEN 0
              ELSE 1
    /\ pc \in {"result", "exited"} =>
          Len(replies) = Len(calls) /\ pending = "none"
    /\ file # NoFile => pending = "none" /\ Len(replies) = Len(calls)
    /\ client = "failed" =>
          /\ ran = <<>>
          /\ calls = <<>>
          /\ pc = "exited"
          /\ fatal \in {"none", "write"}
          /\ fatal = "none" =>
                /\ exit = "success"
                /\ writes = 1
                /\ \E e \in Causes :
                      file = FailureEnvelope(
                                 <<"Failed to create client: ">> \o e)

\* C4 witness: one remote call was issued, failed, was not repeated, and the
\* envelope was written after it returned
C4_Witness ==
    /\ Written
    /\ Len(calls) = 1
    /\ Len(replies) = 1
    /\ ~replies[1].ok
    /\ writes = 1

\* C5: for every large-unsigned-integer field and every JSON value it can
\* take: when the field is absent 0 is used and the command proceeds; when
\* it is present and not the string representation of an unsigned integer
\* the command fails with a parse error and no remote call is issued.
C5_AbsentZeroMalformedFails ==
    ran # <<>> /\ pc \in {"await", "result", "exited"}
        /\ IntFields(Running) # {} =>
        LET holder == IntHolder(Running)
            fields == IntFields(Running)
        IN  /\ (\E k \in fields : PresentMalformed(holder, k)) =>
                  /\ calls = <<>>
                  /\ pc # "await"
                  /\ ~result.ok
                  /\ result.e = ParseErrorText
            /\ (\A k \in fields : ~Has(holder, k)) =>
                  IF Running \in ClaimSites
                  THEN /\ claims[Running].ok
                       /\ \A k \in fields : claims[Running].v[k] = <<"0">>
                  ELSE /\ calls # <<>>
                       /\ \A k \in fields : calls[1][k] = <<"0">>

\* C6: whatever args holds, the one call remunerate issues is
\* pay_tab(1, 1, 1000000000000000, "0x292F...0bac"), and what it returns and
\* writes is determined by the remote response alone.
C6_RemunerateIgnoresArgs ==
    ran = <<"remunerate">> =>
        /\ calls =
              <<[op |-> "pay_tab",
                 tab_id |-> <<"1">>,
                 req_id |-> <<"1">>,
                 amount |-> <<"1", "0", "0", "0", "0", "0", "0", "0", "0",
                              "0", "0", "0", "0", "0", "0", "0">>,
                 recipient |->
                     <<"0x292F0E22A0245387a89d5DB50F016d18D6aF0bac">>]>>
        /\ pc \in {"result", "exited"} =>
              /\ Len(replies) = 1
              /\ result = remunerate_result(replies[1])
        /\ Written =>
              file = Serialize(IF replies[1].ok
                               THEN OkOutput(remunerate_result(replies[1]).v)
                               ELSE ErrOutput(remunerate_result(replies[1]).e))

\* C6 witness: remunerate ran with args naming another tab, amount and
\* recipient, and wrote a success envelope
C6_Witness ==
    /\ Written
    /\ ran = <<"remunerate">>
    /\ Has(input.args, "tab_id")
    /\ input.args.o["tab_id"] = Str(<<"7">>)
    /\ Has(input.args, "recipient")
    /\ file.o["success"] = Bool(TRUE)

\* both args.certificate and args.public_key are non-empty strings
BothPresent ==
    LET certificate == Index(input.args, "certificate")
        public_key == Index(input.args, "public_key")
    IN  /\ certificate.t = "str" /\ Len(certificate.s) > 0
        /\ public_key.t = "str" /\ Len(public_key.s) > 0

\* C7 (as stated): for every args, verify_bls_signature writes a success
\* envelope with verified:true and the claims when certificate and
\* public_key are both non-empty, and the failure envelope
\* "BLS signature verification failed" otherwise.
C7_PresenceCheckAnyArgs ==
    Written /\ ran = <<"verify_bls_signature">> =>
        IF BothPresent
        THEN /\ file.o["success"] = Bool(TRUE)
             /\ Has(file, "verified")
             /\ file.o["verified"] = Bool(TRUE)
             /\ Has(file, "claims")
        ELSE file = FailureEnvelope(<<"BLS signature verification failed">>)

\* no large-unsigned-integer field of args.claims is a malformed string
ClaimsParse ==
    \A k \in {"tab_id", "req_id", "amount"} :
        ~MalformedString(Index(input.args, "claims"), k)

\* C7 (amended): verify_bls_signature issues no remote call; when an
\* integer field of args.claims is a malformed string it writes the failure
\* envelope of the parse error, whatever certificate and public_key are;
\* otherwise it writes verified:true with the claims it built when both are
\* non-empty strings, and "BLS signature verification failed" when not.
C7_PresenceCheckWhenClaimsParse ==
    ran = <<"verify_bls_signature">> =>
        /\ calls = <<>>
        /\ Written =>
              IF ~ClaimsParse
              THEN file = FailureEnvelope(ParseErrorText)
              ELSE IF BothPresent
              THEN LET c == claims["verify_bls_signature"].v
                   IN  file =
                         Obj([success |-> Bool(TRUE),
                              error |-> Null,
                              verified |-> Bool(TRUE),
                              message |-> Str(<<"BLS signature is valid">>),
                              claims |->
                                Obj([user_address |-> Str(c.user_address),
                                     recipient_address |->
                                         Str(c.recipient_address),
                                     tab_id |-> Str(c.tab_id),
                                     req_id |-> Str(c.req_id),
                                     amount |-> Str(c.amount),
                                     timestamp |-> Num(c.timestamp)])])
              ELSE file = FailureEnvelope(
                              <<"BLS signature verification failed">>)

\* C7 witness: the presence check failed on an empty public_key although
\* the certificate was non-empty
C7_Witness ==
    /\ Written
    /\ ran = <<"verify_bls_signature">>
    /\ ClaimsParse
    /\ Index(input.args, "certificate") = Str(<<"0xdata">>)
    /\ Index(input.args, "public_key") = Str(<<>>)
    /\ file = FailureEnvelope(<<"BLS signature verification failed">>)

\* the field of args.claims is missing
ClaimsFieldAbsent(key) == ~Has(Index(input.args, "claims"), key)

\* C8: for every args.claims the three call sites either all fail with a
\* parse error raised at the same field or all build the same claims, with
\* an absent address as the empty string, an absent integer as 0 and an
\* absent timestamp as 0.
C8_ClaimsBuiltIdentically ==
    /\ \A g \in ClaimSites, h \in ClaimSites :
          claims[g] # NotBuilt /\ claims[h] # NotBuilt =>
              claims[g] = claims[h]
    /\ \A h \in ClaimSites :
          claims[h] # NotBuilt /\ claims[h].ok =>
              /\ \A k \in {"user_address", "recipient_address"} :
                    ClaimsFieldAbsent(k) => claims[h].v[k] = <<>>
              /\ \A k \in {"tab_id", "req_id", "amount"} :
                    ClaimsFieldAbsent(k) => claims[h].v[k] = <<"0">>
              /\ ClaimsFieldAbsent("timestamp") => claims[h].v.timestamp = 0

\* C8 witness: the three sites failed on claims whose amount is malformed
\* while tab_id and req_id are well-formed
C8_Witness ==
    /\ \A h \in ClaimSites : claims[h] # NotBuilt /\ ~claims[h].ok
    /\ claims["issue_payment_guarantee"].at = "amount"
    /\ ClaimsFieldAbsent("timestamp")

\* C9: the scheme handed to the remote call by sign_payment and
\* issue_payment_guarantee is Eip191 iff args.scheme is exactly the string
\* "Eip191", and Eip712 for every other value; resolving the scheme never
\* fails the command.
C9_SchemeResolution ==
    /\ \A i \in 1..Len(calls) :
          calls[i].op \in {"sign_payment", "issue_payment_guarantee"} =>
              /\ calls[i].scheme \in {"Eip712", "Eip191"}
              /\ calls[i].scheme = "Eip191" <=>
                    Index(input.args, "scheme") = Str(<<"Eip191">>)
    /\ ran # <<>> /\ Running \in {"sign_payment", "issue_payment_guarantee"}
          /\ ClaimsParse =>
          Len(calls) = 1

\* C9 witness: sign_payment was given an unrecognised scheme string and
\* called the SDK with Eip712
C9_Witness ==
    /\ Len(calls) = 1
    /\ calls[1].op = "sign_payment"
    /\ Index(input.args, "scheme") = Str(<<"bogus">>)
    /\ calls[1].scheme = "Eip712"

\* the prefix naming the requested operation
RequestedPrefix(command) ==
    CASE command = "deposit" -> "Deposit failed: "
      [] command = "get_user" -> "Get user failed: "
      [] command = "create_tab" -> "Create tab failed: "
      [] command = "sign_payment" -> "Sign payment failed: "
      [] command = "issue_payment_guarantee" ->
            "Issue payment guarantee failed: "
      [] command = "pay_tab" -> "Pay tab failed: "
      [] command = "get_tab_payment_status" ->
            "Get tab payment status failed: "
      [] command = "remunerate" -> "Remunerate failed: "
      [] command = "verify_bls_signature" -> "Verify bls signature failed: "
      [] OTHER -> "?"

\* the prefix naming the SDK operation that was called
CalledPrefix(op) ==
    CASE op = "deposit" -> "Deposit failed: "
      [] op = "get_user" -> "Get user failed: "
      [] op = "create_tab" -> "Create tab failed: "
      [] op = "sign_payment" -> "Sign payment failed: "
      [] op = "issue_payment_guarantee" -> "Issue payment guarantee failed: "
      [] op = "pay_tab" -> "Pay tab failed: "
      [] op = "get_tab_payment_status" -> "Get tab payment status failed: "
      [] OTHER -> "?"

\* the remote call returned an error
RemoteFailed == replies # <<>> /\ ~replies[1].ok

\* an integer field of the running handler is a malformed string
ParseFailed ==
    /\ ran # <<>>
    /\ \E k \in IntFields(Running) : MalformedString(IntHolder(Running), k)

\* C10 (as stated): every business failure (an error of the remote call or
\* a failed numeric parse) becomes a failure envelope whose error is
\* prefixed with the name of the requested operation, and the process
\* exits 0.
C10_PrefixedByRequestedOperation ==
    pc \in {"result", "exited"} /\ (RemoteFailed \/ ParseFailed) =>
        /\ ~result.ok
        /\ Head(result.e) = RequestedPrefix(Running)
        /\ pc = "exited" /\ fatal = "none" =>
              exit = "success" /\ file = FailureEnvelope(result.e)

\* C10 (amended): an error of the remote call becomes a failure envelope
\* whose error is the name of the SDK operation called ("Pay tab failed: "
\* for pay_tab and for remunerate) followed by the cause; a failed numeric
\* parse becomes a failure envelope whose error is the bare parse error;
\* either way the process exits 0 once the envelope is written.
C10_PrefixedByCalledOperation ==
    pc \in {"result", "exited"} =>
        /\ RemoteFailed =>
              /\ ~result.ok
              /\ result.e = <<CalledPrefix(calls[1].op)>> \o replies[1].e
        /\ ParseFailed => ~result.ok /\ result.e = ParseErrorText
        /\ (RemoteFailed \/ ParseFailed) /\ pc = "exited" /\ fatal = "none" =>
              exit = "success" /\ file = FailureEnvelope(result.e)

\* C10 witness: the pay_tab call of remunerate failed and the envelope says
\* "Pay tab failed: <cause>"
C10_Witness ==
    /\ Written
    /\ ran = <<"remunerate">>
    /\ RemoteFailed
    /\ file = FailureEnvelope(<<"Pay tab failed: ">> \o replies[1].e)

====
